---- MODULE Spec2Model ----
(***************************************************************************)
(* TrueLayer MCP server: the access-token cache (truelayer.ts), the         *)
(* signed-request construction of every API operation, and the tool         *)
(* handlers (index.ts) that wrap them.                                      *)
(*                                                                          *)
(* JavaScript runs one continuation at a time, so each action is the code   *)
(* that runs between two suspension points (await fetch / await json()).    *)
(* JS null and undefined are the strings Null and Undefined; a header value *)
(* is a tuple, "Bearer ${t}" is <<"Bearer", t>>.                            *)
(***************************************************************************)
EXTENDS Integers, Sequences, FiniteSets, TLC

VARIABLES
    now,            \* Date.now(), epoch milliseconds
    keyValid,       \* whether KID / PRIVATE_KEY_PEM (auth.ts) are usable by tlSigning.sign
    tokenCache,     \* truelayer.ts:22  [token, expiresAt]
    calls,          \* the tool invocations in progress, one record per slot
    ticks,          \* number of clock advances
    uuidCount,      \* number of uuidv4() values drawn so far
    keyLog          \* Idempotency-Key of every mutating request transmitted, in order

vars == <<now, keyValid, tokenCache, calls, ticks, uuidCount, keyLog>>

----------------------------------------------------------------------------
(* Bounds of the model *)

MaxUuid == 3         \* uuidv4() is drawn at most this many times
MaxActive == 2       \* tool invocations that can be in progress together
MaxTicks == 2        \* clock advances
ClockOrigin == 100000

CallIds == 1..MaxActive

\* Clock advances, in milliseconds: inside the buffer, past a short token, past a long one
TickSteps == {30000, 3600000}

----------------------------------------------------------------------------
(* config, truelayer.ts:6-13 *)

userAgent == "truelayer-mcp/1.0.0"
tokenScope == "paydirect payments"
tokenGrantType == "client_credentials"
tokenExpiryFallbackSeconds == 1800
tokenExpiryBufferMs == 60000
paymentLinkExpiryHours == 24

Null == "NULL"
Undefined == "UNDEFINED"
None == "NONE"

----------------------------------------------------------------------------
(* The tools *)

\* index.ts:20-306
CurrentTools ==
    { "truelayer-get-merchant-account", "truelayer-get-payout", "truelayer-create-payout",
      "truelayer-create-payment-link", "truelayer-get-payment-link", "truelayer-get-payment",
      "truelayer-list-transactions" }

\* part_000:229-251 and part_000:163-227, the handlers that take the access token as an
\* argument, and part_000:39-76, the handler that calls generateAccessToken() on its own
EarlierTools == { "list_transactions", "create-truelayer-payment-link", "get-truelayer-access-token" }

\* Tools whose handler body is wrapped in try/catch
HandlerCatches(tool) ==
    tool \in CurrentTools \cup {"create-truelayer-payment-link", "get-truelayer-access-token"}

\* Tools whose API function starts with `await getAccessToken()`
UsesTokenManager(tool) == tool \in CurrentTools \ {"truelayer-get-merchant-account"}

\* Tools whose API function draws an Idempotency-Key and signs the request
IsMutating(tool) ==
    tool \in {"truelayer-create-payout", "truelayer-create-payment-link", "create-truelayer-payment-link"}

\* The argument that identifies the resource or the business parameters
Args(tool) ==
    CASE tool = "truelayer-get-merchant-account" -> {"-"}
      [] tool = "truelayer-create-payout" -> {"GBP 5000 m-1"}
      [] tool \in {"truelayer-create-payment-link", "create-truelayer-payment-link"} -> {"m-1"}
      [] tool \in {"truelayer-list-transactions", "list_transactions"} -> {"m-1"}
      [] OTHER -> {"pay_123"}

\* access_token argument of the earlier list_transactions tool
ArgTokens == {"tokA"}

\* from / to / cursor of truelayer-list-transactions (index.ts:269-272), each optional:
\* <<>> when not supplied. The timestamps are the texts "1970-01-01T00:00:10.000Z" and
\* "1970-01-01T00:00:50.000Z", written as toISOString writes them
ListArgs ==
    { [from |-> f, to |-> t, cursor |-> k] :
        f \in {<<>>, << <<"ISO-8601", 0, 10000>> >>},
        t \in {<<>>, << <<"ISO-8601", 0, 50000>> >>},
        k \in {<<>>, <<"cur_1">>} }

\* from / to / cursor of the earlier list_transactions (part_000:232-237): from and to
\* are required
EarlierListArgs == { a \in ListArgs : a.from # <<>> /\ a.to = << <<"ISO-8601", 0, 50000>> >> }

\* Arguments of truelayer-create-payment-link (index.ts:126-129); expires_in_hours is
\* optional, <<>> when not supplied
LinkArgs ==
    { [amount_in_minor |-> 5000, currency |-> "GBP", merchant_account_id |-> m, expires_in_hours |-> h] :
        m \in Args("truelayer-create-payment-link"), h \in {<<>>, <<1>>, <<0>>, <<-1>>} }

\* Arguments of the earlier create-truelayer-payment-link (part_000:166-170); the
\* currency and the expiry are fixed by the handler
EarlierLinkArgs ==
    { [amount_in_minor |-> 5000, currency |-> "GBP", merchant_account_id |-> m, expires_in_hours |-> <<>>] :
        m \in Args("create-truelayer-payment-link") }

\* Milliseconds the clock can advance between two statements of a handler
ReadGaps == {0, 1}

\* Change of the local UTC offset across the thirty days counted back, in milliseconds
DstShifts == {0, 3600000}

----------------------------------------------------------------------------
(* The network's answers *)

AccessTokens == {"tokA", "tokB"}

\* What the token endpoint can answer. net = "fail": fetch rejects. json: whether
\* response.json() can parse the body. access_token = Undefined: the field is absent.
\* has_expires_in = FALSE: the field is absent.
TokenFailures ==
    { [net |-> "fail", status |-> 0,   json |-> FALSE, access_token |-> Undefined, has_expires_in |-> FALSE, expires_in |-> 0],
      [net |-> "ok",   status |-> 401, json |-> TRUE,  access_token |-> Undefined, has_expires_in |-> FALSE, expires_in |-> 0],
      [net |-> "ok",   status |-> 200, json |-> FALSE, access_token |-> Undefined, has_expires_in |-> FALSE, expires_in |-> 0] }

\* Parsed 200 answers: a token with each kind of expires_in, and bodies whose
\* access_token is absent or empty
TokenBodies ==
    { [net |-> "ok", status |-> 200, json |-> TRUE, access_token |-> t, has_expires_in |-> TRUE, expires_in |-> e] :
        t \in AccessTokens, e \in {0, 30, 3600} }
    \cup
    { [net |-> "ok", status |-> 200, json |-> TRUE, access_token |-> t, has_expires_in |-> FALSE, expires_in |-> 0] :
        t \in AccessTokens }
    \cup
    { [net |-> "ok", status |-> 200, json |-> TRUE, access_token |-> t, has_expires_in |-> TRUE, expires_in |-> 3600] :
        t \in {Undefined, ""} }

TokenResponses == TokenFailures \cup TokenBodies

\* What the business API can answer
ApiResponses ==
    { [net |-> "fail", status |-> 0, json |-> FALSE] }
    \cup { [net |-> "ok", status |-> s, json |-> j] : s \in {200, 404}, j \in BOOLEAN }

\* response.ok
ResponseOk(resp) == resp.status >= 200 /\ resp.status <= 299

----------------------------------------------------------------------------
(* Signing and request construction *)

\* tlSigning.sign({kid, privateKeyPem, method, path, headers, body}): the value binds
\* exactly the input it was given
sign(input) == <<"Tl-Signature over", input>>

\* SentHeaders that sets User-Agent after the headers were signed
SentHeaders_AgentAfterSign(headers, signature) ==
    ("Tl-Signature" :> signature) @@ ("User-Agent" :> <<"node">>) @@ headers

\* { ...headers, 'Tl-Signature': signature }
SentHeaders(headers, signature) == ("Tl-Signature" :> signature) @@ headers

\* truelayer.ts:54-88, the request generateAccessToken builds and signs
TokenFormData == <<"form", [client_id |-> "CLIENT_ID", client_secret |-> "CLIENT_SECRET",
                            scope |-> tokenScope, grant_type |-> tokenGrantType]>>

TokenHeaders == ("Content-Type" :> <<"application/x-www-form-urlencoded">>)
                @@ ("User-Agent" :> <<userAgent>>)

TokenSigningInput == [method |-> "POST", path |-> <<"/connect/token">>,
                      headers |-> TokenHeaders, body |-> TokenFormData]

TokenRequest ==
    [method |-> "POST", url |-> <<"AUTH_URI">>,
     headers |-> SentHeaders(TokenHeaders, sign(TokenSigningInput)),
     body |-> TokenFormData,
     signed |-> <<TokenSigningInput>>]

\* GetHeaders without the Authorization header
GetHeaders_NoAuthorization(token) ==
    ("Accept" :> <<"application/json; charset=UTF-8">>)
    @@ ("User-Agent" :> <<userAgent>>)

\* Headers of the GET operations of truelayer.ts
GetHeaders(token) ==
    ("Authorization" :> <<"Bearer", token>>)
    @@ ("Accept" :> <<"application/json; charset=UTF-8">>)
    @@ ("User-Agent" :> <<userAgent>>)

\* Headers of ListTransactions of part_001:229-235
EarlierGetHeaders(token) ==
    ("Authorization" :> <<"Bearer", token>>)
    @@ ("Accept" :> <<"application/json; charset=UTF-8">>)

\* Headers of createPaymentLink of part_001:181-186, the set handed to sign
EarlierPostHeaders(token, idempotencyKey) ==
    ("Authorization" :> <<"Bearer", token>>)
    @@ ("Content-Type" :> <<"application/json; charset=UTF-8">>)
    @@ ("Accept" :> <<"application/json; charset=UTF-8">>)
    @@ ("Idempotency-Key" :> <<idempotencyKey>>)

\* Headers of createPayout / createPaymentLink, the set handed to sign
PostHeaders(token, idempotencyKey) ==
    ("Authorization" :> <<"Bearer", token>>)
    @@ ("Content-Type" :> <<"application/json; charset=UTF-8">>)
    @@ ("Accept" :> <<"application/json; charset=UTF-8">>)
    @@ ("Idempotency-Key" :> <<idempotencyKey>>)
    @@ ("User-Agent" :> <<userAgent>>)

\* ApiPath with getPayment reading the payouts resource, as getPayment of part_001:67 does
ApiPath_PaymentFromPayouts(tool, arg) ==
    CASE tool \in {"truelayer-get-payout", "truelayer-get-payment"} -> <<"/v3/payouts/", arg>>
      [] tool = "truelayer-get-payment-link" -> <<"/v3/payment-links/", arg>>
      [] tool = "truelayer-create-payout" -> <<"/v3/payouts">>
      [] tool \in {"truelayer-create-payment-link", "create-truelayer-payment-link"} -> <<"/v3/payment-links">>
      [] OTHER -> <<"/v3/merchant-accounts/", arg, "/transactions?">>

\* The path of each operation's request
ApiPath(tool, arg) ==
    CASE tool = "truelayer-get-payout" -> <<"/v3/payouts/", arg>>
      [] tool = "truelayer-get-payment" -> <<"/v3/payments/", arg>>
      [] tool = "truelayer-get-payment-link" -> <<"/v3/payment-links/", arg>>
      [] tool = "truelayer-create-payout" -> <<"/v3/payouts">>
      [] tool \in {"truelayer-create-payment-link", "create-truelayer-payment-link"} -> <<"/v3/payment-links">>
      [] OTHER -> <<"/v3/merchant-accounts/", arg, "/transactions?">>

\* JSON.stringify(request)
BodyStr(arg) == <<"json", arg>>

GetRequest(headers, path) ==
    [method |-> "GET", url |-> <<"BASE_URI">> \o path, headers |-> headers,
     body |-> <<>>, signed |-> <<>>]

\* truelayer.ts:164-194 and 238-267
PostRequest(headers, path, bodyStr) ==
    [method |-> "POST", url |-> <<"BASE_URI">> \o path,
     headers |-> SentHeaders(headers, sign([method |-> "POST", path |-> path,
                                            headers |-> headers, body |-> bodyStr])),
     body |-> bodyStr,
     signed |-> << [method |-> "POST", path |-> path, headers |-> headers, body |-> bodyStr] >>]

\* A Date: epoch milliseconds plus whole days, the instant ms + days * 86400000
DateOf(ms) == [ms |-> ms, days |-> 0]

\* Date.prototype.toISOString(), the UTC text of the instant
toISOString(date) == <<"ISO-8601", date.days, date.ms>>

\* new Date(text): the instant a timestamp text denotes, <<>> for an Invalid Date
DateParse(text) ==
    IF Len(text) = 3 /\ text[1] = "ISO-8601"
    THEN << [ms |-> text[3], days |-> text[2]] >>
    ELSE <<>>

\* index.ts:282, date.setDate(date.getDate() - 30): thirty calendar days back at the same
\* local wall-clock time; dstShift is the change of the local UTC offset between the two
\* dates, in milliseconds
setDateBack30(date, dstShift) == [ms |-> date.ms + dstShift, days |-> date.days - 30]

\* a JS string used as a condition
Truthy(opt) == opt # <<>> /\ opt[1] # ""

\* index.ts:276-284: [from, to] handed to listTransactions, <<>> when toISOString throws
\* a RangeError. t1, t2: the clock at `new Date()` of line 277 and of line 281
ListDates(args, t1, t2, dstShift) ==
    LET toDate == IF Truthy(args.to) THEN args.to ELSE <<toISOString(DateOf(t1))>>
        base == IF Truthy(args.to) THEN DateParse(args.to[1]) ELSE <<DateOf(t2)>> IN
    IF Truthy(args.from) THEN << [from |-> args.from, to |-> toDate] >>
    ELSE IF base = <<>> THEN <<>>
    ELSE << [from |-> <<toISOString(setDateBack30(base[1], dstShift))>>, to |-> toDate] >>

\* truelayer.ts:300-307, params.toString(): the form-urlencoding of the pairs appended
ListQuery(from, to, cursor) ==
    <<"urlencoded", <<"from", from>>, <<"to", to>>>>
    \o (IF Truthy(cursor) THEN << <<"cursor", cursor>> >> ELSE <<>>)

\* index.ts:150-151: expires_at of the payment link, read at clock t
ExpiryTime(expires_in_hours, t) ==
    LET expiryHours == IF expires_in_hours # <<>> /\ expires_in_hours[1] # 0
                       THEN expires_in_hours[1]
                       ELSE paymentLinkExpiryHours IN
    toISOString(DateOf(t + expiryHours * 60 * 60 * 1000))

\* part_000:173, expires_at: "2025-04-03T09:49:30.540Z"
EarlierExpiryTime == toISOString([ms |-> 35370540, days |-> 20181])

\* index.ts:153-180 and part_000:171-202, paymentLinkRequest; of the user only the
\* generated id is kept
PaymentLinkRequest(args, expires_at, userId) ==
    [type |-> "single_payment",
     expires_at |-> expires_at,
     payment_configuration |->
        [currency |-> args.currency,
         amount_in_minor |-> args.amount_in_minor,
         payment_method |-> [type |-> "bank_transfer",
                             provider_selection |-> [type |-> "user_selected"],
                             beneficiary |-> [type |-> "merchant_account",
                                              merchant_account_id |-> args.merchant_account_id]],
         user |-> [id |-> userId]]]

\* The request an API function transmits once it holds an access token
ApiRequest(tool, arg, input, token, idempotencyKey) ==
    IF tool = "truelayer-create-payout"
    THEN PostRequest(PostHeaders(token, idempotencyKey), ApiPath(tool, arg), BodyStr(arg))
    ELSE IF tool = "truelayer-create-payment-link"
    THEN PostRequest(PostHeaders(token, idempotencyKey), ApiPath(tool, arg), BodyStr(input[1].request))
    ELSE IF tool = "create-truelayer-payment-link"
    THEN PostRequest(EarlierPostHeaders(token, idempotencyKey), ApiPath(tool, arg), BodyStr(input[1].request))
    ELSE IF tool = "list_transactions"
         THEN GetRequest(EarlierGetHeaders(token),
                         Append(ApiPath(tool, arg), ListQuery(input[1].from, input[1].to, input[1].cursor)))
    ELSE IF tool = "truelayer-list-transactions"
         THEN GetRequest(GetHeaders(token),
                         Append(ApiPath(tool, arg), ListQuery(input[1].from, input[1].to, input[1].cursor)))
         ELSE GetRequest(GetHeaders(token), ApiPath(tool, arg))


----------------------------------------------------------------------------
(* Token Manager, truelayer.ts:22-50 *)

\* isTokenValid with the two sides of the comparison in different units
isTokenValid_UnitSlip ==
    /\ tokenCache.token # Null
    /\ tokenCache.expiresAt > (now + tokenExpiryBufferMs) * 1000

\* truelayer.ts:28-33
isTokenValid ==
    /\ tokenCache.token # Null
    /\ tokenCache.expiresAt > now + tokenExpiryBufferMs

\* expiresIn with `??` in place of `||`: a zero expires_in is kept
expiresIn_Nullish(resp) ==
    IF resp.has_expires_in
    THEN resp.expires_in
    ELSE tokenExpiryFallbackSeconds

\* truelayer.ts:46, tokenResponse.expires_in || config.tokenExpiryFallbackSeconds
expiresIn(resp) ==
    IF resp.has_expires_in /\ resp.expires_in # 0
    THEN resp.expires_in
    ELSE tokenExpiryFallbackSeconds

\* RefreshedCache that adds the lifetime in seconds to a time in milliseconds
RefreshedCache_Seconds(resp, t) ==
    [token |-> resp.access_token, expiresAt |-> t + expiresIn(resp)]

\* RefreshedCache that keeps the cached pair when it expires later than the new one
RefreshedCache_KeepLaterExpiry(resp, t) ==
    IF tokenCache.expiresAt > t + expiresIn(resp) * 1000
    THEN tokenCache
    ELSE [token |-> resp.access_token, expiresAt |-> t + expiresIn(resp) * 1000]

\* RefreshedCache of a getAccessToken that suspends between its two writes: the step
\* stores the token and leaves the expiry for later
RefreshedCache_TokenOnly(resp, t) ==
    [token |-> resp.access_token, expiresAt |-> tokenCache.expiresAt]

\* truelayer.ts:42-47, the cache after a parsed answer is processed at time t
RefreshedCache(resp, t) ==
    [token |-> resp.access_token, expiresAt |-> t + expiresIn(resp) * 1000]

\* ExchangeError without the `if (!response.ok)` check
ExchangeError_NoStatusCheck(resp) ==
    IF resp.net = "fail" THEN << <<"TypeError", "fetch failed", 0>> >>
    ELSE IF ~resp.json THEN << <<"SyntaxError", "Unexpected token", 0>> >>
    ELSE <<>>

\* ExchangeError of a generateAccessToken whose catch block logs and does not rethrow
ExchangeError_Swallowed(resp) == <<>>

\* truelayer.ts:89-101, the error generateAccessToken throws for an answer, <<>> if none
ExchangeError(resp) ==
    IF resp.net = "fail" THEN << <<"TypeError", "fetch failed", 0>> >>
    ELSE IF ~ResponseOk(resp) THEN << <<"Error", "HTTP error! Status: ", resp.status>> >>
    ELSE IF ~resp.json THEN << <<"SyntaxError", "Unexpected token", 0>> >>
    ELSE <<>>

\* thrown by tlSigning.sign when the key material is unusable
SigningError == <<"Error", "sign failed", 0>>

----------------------------------------------------------------------------
(* Tool handlers, index.ts *)

IdleCall ==
    [pc |-> "idle", tool |-> None, arg |-> None,
     input |-> <<>>,          \* the handler's other arguments and the clock readings it took
     access_token |-> None,   \* the API function's local access_token
     cacheHit |-> FALSE,      \* getAccessToken returned at truelayer.ts:38
     expiresAtCall |-> 0,     \* tokenCache.expiresAt when getAccessToken was called, until the API answers
     tokenResp |-> <<>>,      \* the token endpoint's answer, once processed, until the API answers
     authReqs |-> <<>>,       \* requests this call transmitted to the token endpoint
     apiReqs |-> <<>>,        \* requests this call transmitted to the business API
     apiResp |-> <<>>,        \* the business API's answer, once processed
     result |-> <<>>]         \* what the handler returned (or threw)

SuccessPrefix(tool) ==
    CASE tool = "truelayer-get-merchant-account" -> ""
      [] tool = "truelayer-get-payout" -> "Payout details: "
      [] tool = "truelayer-create-payout" -> "Payout created successfully: "
      [] tool \in {"truelayer-create-payment-link", "create-truelayer-payment-link"}
           -> "Payment link created successfully: "
      [] tool = "truelayer-get-payment-link" -> "Payment link details: "
      [] tool = "truelayer-get-payment" -> "Payment details: "
      [] tool = "get-truelayer-access-token" -> "TrueLayer access token: "
      [] OTHER -> "Transactions: "

FailurePrefix(tool) ==
    CASE tool = "truelayer-get-payout" -> "Failed to retrieve payout: "
      [] tool = "truelayer-create-payout" -> "Failed to create payout: "
      [] tool \in {"truelayer-create-payment-link", "create-truelayer-payment-link"}
           -> "Failed to create payment link: "
      [] tool = "truelayer-get-payment-link" -> "Failed to retrieve payment link: "
      [] tool = "truelayer-get-payment" -> "Failed to retrieve payment: "
      [] tool = "get-truelayer-access-token" -> "Failed to generate TrueLayer token: "
      [] OTHER -> "Failed to list transactions: "

\* The handler's return value on the try path
Succeed(call, data) ==
    [call EXCEPT !.pc = "done",
                 !.result = << [kind |-> "text", prefix |-> SuccessPrefix(call.tool), payload |-> data] >>]

\* An error reaches the handler: its catch block turns it into text; without one it escapes
Fail(call, error) ==
    [call EXCEPT !.pc = "done",
                 !.result = << IF HandlerCatches(call.tool)
                               THEN [kind |-> "text", prefix |-> FailurePrefix(call.tool), payload |-> error]
                               ELSE [kind |-> "rejected", prefix |-> "", payload |-> error] >>]

\* uuidv4(): a value no earlier call of uuidv4() returned; u values were drawn before
uuidv4(u) == u + 1

\* NewIdempotencyKey with the key drawn once for the process instead of per call
NewIdempotencyKey_ModuleLevel(call, u) == 1

\* truelayer.ts:166 and 239, const idempotencyKey = uuidv4()
NewIdempotencyKey(call, u) == uuidv4(u)

\* The part of an API function after `access_token = await getAccessToken()` up to its
\* fetch: [call, uuidCount, keyLog] after it
Transmit(call, token, u, keys) ==
    LET withToken == [call EXCEPT !.access_token = token] IN
    IF IsMutating(call.tool)
    THEN LET req == ApiRequest(call.tool, call.arg, call.input, token, NewIdempotencyKey(call, u)) IN
         IF ~keyValid
         THEN [call |-> Fail(withToken, SigningError), uuidCount |-> u + 1, keyLog |-> keys]
         ELSE [call |-> [withToken EXCEPT !.pc = "api", !.apiReqs = <<req>>],
               uuidCount |-> u + 1,
               keyLog |-> Append(keys, req.headers["Idempotency-Key"][1])]
    ELSE [call |-> [withToken EXCEPT !.pc = "api",
                                     !.apiReqs = << ApiRequest(call.tool, call.arg, call.input, token, 0) >>],
          uuidCount |-> u,
          keyLog |-> keys]

\* `await response.json()` of a business API answer and the handler's return
Settle(call, resp) ==
    LET seen == [call EXCEPT !.apiResp = <<resp>>, !.expiresAtCall = 0, !.tokenResp = <<>>] IN
    IF resp.net = "fail" THEN Fail(seen, <<"TypeError", "fetch failed", 0>>)
    ELSE IF ~resp.json THEN Fail(seen, <<"SyntaxError", "Unexpected token", 0>>)
    ELSE Succeed(seen, <<"json", "status", resp.status>>)

----------------------------------------------------------------------------
(* Actions *)

Init ==
    /\ now = ClockOrigin
    /\ keyValid \in BOOLEAN
    /\ tokenCache = [token |-> Null, expiresAt |-> 0]
    /\ calls = [c \in CallIds |-> IdleCall]
    /\ ticks = 0
    /\ uuidCount = 0
    /\ keyLog = <<>>

\* uuidv4() draws that the calls in progress have still to make
PendingDraws ==
    Cardinality({c \in CallIds : calls[c].pc = "token" /\ IsMutating(calls[c].tool)})
    + 2 * Cardinality({c \in CallIds : calls[c].pc = "import"})

\* The host starts an invocation in the first free slot; draws uuidv4() values are in budget
MayStart(c, draws) ==
    /\ calls[c].pc = "idle"
    /\ \A d \in CallIds : d < c => calls[d].pc # "idle"
    /\ uuidCount + PendingDraws + draws <= MaxUuid

\* An API function that starts with getAccessToken(), called with `call` and run to its first
\* suspension: the fetch of the token endpoint, or on a cache hit the fetch of the API.
\* u: uuidv4() values drawn once the handler has built its request object; clock: the time
\* when getAccessToken() is called
CallApi(c, call, u, clock) ==
    /\ clock # now => ticks < MaxTicks
    /\ now' = clock
    /\ ticks' = IF clock = now THEN ticks ELSE ticks + 1
    /\ UNCHANGED <<keyValid, tokenCache>>
    /\ IF isTokenValid'
       THEN LET t == Transmit([call EXCEPT !.cacheHit = TRUE], tokenCache.token, u, keyLog) IN
            /\ calls' = [calls EXCEPT ![c] = t.call]
            /\ uuidCount' = t.uuidCount
            /\ keyLog' = t.keyLog
       ELSE /\ calls' = [calls EXCEPT ![c] =
                           IF keyValid
                           THEN [call EXCEPT !.pc = "token", !.authReqs = <<TokenRequest>>,
                                             !.expiresAtCall = tokenCache.expiresAt]
                           ELSE Fail(call, SigningError)]
            /\ uuidCount' = u
            /\ keyLog' = keyLog

\* A handler that calls its API function in the step it is entered
StartAt(c, tool, arg, input, u, clock) ==
    /\ MayStart(c, (u - uuidCount) + (IF IsMutating(tool) THEN 1 ELSE 0))
    /\ CallApi(c, [IdleCall EXCEPT !.tool = tool, !.arg = arg, !.input = input], u, clock)

\* A handler that reads no argument but the resource's and takes no clock reading
StartWithToken(c, tool, arg, u) == StartAt(c, tool, arg, <<>>, u, now)

\* index.ts:20-37
getMerchantAccountTool(c) ==
    /\ MayStart(c, 0)
    /\ calls' = [calls EXCEPT ![c] =
                    Succeed([IdleCall EXCEPT !.tool = "truelayer-get-merchant-account", !.arg = "-"],
                            <<"json", "merchant_account_id", 0>>)]
    /\ UNCHANGED <<now, keyValid, tokenCache, ticks, uuidCount, keyLog>>

\* index.ts:39-68 with truelayer.ts:104-116
getPayoutTool(c) ==
    \E id \in Args("truelayer-get-payout") : StartWithToken(c, "truelayer-get-payout", id, uuidCount)

\* index.ts:70-119 with truelayer.ts:158-194
createPayoutTool(c) ==
    \E p \in Args("truelayer-create-payout") : StartWithToken(c, "truelayer-create-payout", p, uuidCount)

\* index.ts:144-147: the handler up to `await import("./truelayer.js")`
createPaymentLinkTool(c) ==
    \E args \in LinkArgs :
        /\ MayStart(c, 2)
        /\ calls' = [calls EXCEPT ![c] =
                        [IdleCall EXCEPT !.pc = "import", !.tool = "truelayer-create-payment-link",
                                         !.arg = args.merchant_account_id,
                                         !.input = << [args |-> args, at |-> now] >>]]
        /\ UNCHANGED <<now, keyValid, tokenCache, ticks, uuidCount, keyLog>>

\* index.ts:149-182 with truelayer.ts:232-267: the import resolved; the handler reads the
\* clock, draws user.id with uuidv4() and calls createPaymentLink
importResolved(c) ==
    LET args == calls[c].input[1].args
        userId == uuidv4(uuidCount)
        request == PaymentLinkRequest(args, ExpiryTime(args.expires_in_hours, now), userId) IN
    /\ calls[c].pc = "import"
    /\ CallApi(c, [calls[c] EXCEPT !.input = << [args |-> args, at |-> now, request |-> request] >>],
               userId, now)

\* part_000:163-227 with part_001:172-209: the token is an argument, the expiry a fixed
\* text; of the uuidv4() values of the user (id, name, city) the id is drawn
earlierCreatePaymentLinkTool(c) ==
    \E args \in EarlierLinkArgs, tok \in ArgTokens :
        LET userId == uuidv4(uuidCount)
            request == PaymentLinkRequest(args, EarlierExpiryTime, userId)
            t == Transmit([IdleCall EXCEPT !.tool = "create-truelayer-payment-link",
                                           !.arg = args.merchant_account_id,
                                           !.input = << [args |-> args, at |-> now, request |-> request] >>],
                          tok, userId, keyLog) IN
        /\ MayStart(c, 2)
        /\ calls' = [calls EXCEPT ![c] = t.call]
        /\ uuidCount' = t.uuidCount
        /\ keyLog' = t.keyLog
        /\ UNCHANGED <<now, keyValid, tokenCache, ticks>>

\* index.ts:203-232 with truelayer.ts:273-286
getPaymentLinkTool(c) ==
    \E id \in Args("truelayer-get-payment-link") : StartWithToken(c, "truelayer-get-payment-link", id, uuidCount)

\* index.ts:234-263 with truelayer.ts:122-135
getPaymentTool(c) ==
    \E id \in Args("truelayer-get-payment") : StartWithToken(c, "truelayer-get-payment", id, uuidCount)

\* index.ts:265-306 with truelayer.ts:292-317
listTransactionsTool(c) ==
    \E m \in Args("truelayer-list-transactions"), args \in ListArgs,
       t2 \in {now + d : d \in ReadGaps}, dstShift \in DstShifts :
        LET dates == ListDates(args, now, t2, dstShift)
            \* args: what the host supplied; from, to, cursor: what listTransactions is handed
            read == [args |-> args, at |-> now, from |-> <<>>, to |-> <<>>, cursor |-> args.cursor] IN
        \* the clock is read a second time only at index.ts:281
        /\ (Truthy(args.from) \/ Truthy(args.to)) => t2 = now
        /\ Truthy(args.from) => dstShift = 0
        /\ IF dates = <<>>
           THEN /\ MayStart(c, 0)
                /\ calls' = [calls EXCEPT ![c] =
                                Fail([IdleCall EXCEPT !.tool = "truelayer-list-transactions", !.arg = m,
                                                      !.input = <<read>>],
                                     <<"RangeError", "Invalid time value", 0>>)]
                /\ UNCHANGED <<now, keyValid, tokenCache, ticks, uuidCount, keyLog>>
           ELSE StartAt(c, "truelayer-list-transactions", m,
                        << [read EXCEPT !.from = dates[1].from, !.to = dates[1].to] >>,
                        uuidCount, t2)

\* part_000:229-251 with part_001:212-235: the token is an argument, no try/catch
earlierListTransactionsTool(c) ==
    \E m \in Args("list_transactions"), tok \in ArgTokens, args \in EarlierListArgs :
        LET t == Transmit([IdleCall EXCEPT !.tool = "list_transactions", !.arg = m,
                                           !.input = << [args |-> args, at |-> now, from |-> args.from,
                                                         to |-> args.to, cursor |-> args.cursor] >>],
                          tok, uuidCount, keyLog) IN
        /\ MayStart(c, 0)
        /\ calls' = [calls EXCEPT ![c] = t.call]
        /\ UNCHANGED <<now, keyValid, tokenCache, ticks, uuidCount, keyLog>>

\* part_000:39-76 with truelayer.ts:53-88: generateAccessToken() called on its own, up
\* to its fetch
getAccessTokenTool(c) ==
    LET call == [IdleCall EXCEPT !.tool = "get-truelayer-access-token", !.arg = "-"] IN
    /\ MayStart(c, 0)
    /\ calls' = [calls EXCEPT ![c] =
                    IF keyValid
                    THEN [call EXCEPT !.pc = "exchange", !.authReqs = <<TokenRequest>>]
                    ELSE Fail(call, SigningError)]
    /\ UNCHANGED <<now, keyValid, tokenCache, ticks, uuidCount, keyLog>>

\* ExchangeResponse that stores the token it was given in the cache
ExchangeResponse_WritesCache(c) ==
    \E resp \in TokenResponses :
        LET call == [calls[c] EXCEPT !.tokenResp = <<resp>>]
            err == ExchangeError(resp) IN
        /\ calls[c].pc = "exchange"
        /\ calls' = [calls EXCEPT ![c] =
                        IF err # <<>> THEN Fail(call, err[1])
                        ELSE Succeed(call, <<"access_token", resp.access_token, 0>>)]
        /\ tokenCache' = IF err # <<>> THEN tokenCache ELSE RefreshedCache(resp, now)
        /\ UNCHANGED <<now, keyValid, ticks, uuidCount, keyLog>>

\* truelayer.ts:89-101 and part_000:45-74: the token endpoint answers a
\* generateAccessToken() that was called on its own
ExchangeResponse(c) ==
    \E resp \in TokenResponses :
        LET call == [calls[c] EXCEPT !.tokenResp = <<resp>>]
            err == ExchangeError(resp) IN
        /\ calls[c].pc = "exchange"
        /\ calls' = [calls EXCEPT ![c] =
                        IF err # <<>> THEN Fail(call, err[1])
                        ELSE Succeed(call, <<"access_token", resp.access_token, 0>>)]
        /\ UNCHANGED <<now, keyValid, tokenCache, ticks, uuidCount, keyLog>>

\* TokenResponse that sends the token request again when the exchange failed
TokenResponse_RetryOnError(c) ==
    \E resp \in TokenResponses :
        LET call == [calls[c] EXCEPT !.tokenResp = <<resp>>]
            err == ExchangeError(resp) IN
        /\ calls[c].pc = "token"
        /\ IF err # <<>>
           THEN /\ calls' = [calls EXCEPT ![c] =
                               IF Len(calls[c].authReqs) < 2
                               THEN [calls[c] EXCEPT !.authReqs = Append(@, TokenRequest)]
                               ELSE Fail(call, err[1])]
                /\ UNCHANGED <<tokenCache, uuidCount, keyLog>>
           ELSE LET cache == RefreshedCache(resp, now)
                    t == Transmit(call, cache.token, uuidCount, keyLog) IN
                /\ tokenCache' = cache
                /\ calls' = [calls EXCEPT ![c] = t.call]
                /\ uuidCount' = t.uuidCount
                /\ keyLog' = t.keyLog
        /\ UNCHANGED <<now, keyValid, ticks>>

\* The token endpoint's answer arrives: truelayer.ts:90-101, then 42-49, then the API
\* function up to its fetch
TokenResponse(c) ==
    \E resp \in TokenResponses :
        LET call == [calls[c] EXCEPT !.tokenResp = <<resp>>]
            err == ExchangeError(resp) IN
        /\ calls[c].pc = "token"
        /\ IF err # <<>>
           THEN /\ calls' = [calls EXCEPT ![c] = Fail(call, err[1])]
                /\ UNCHANGED <<tokenCache, uuidCount, keyLog>>
           ELSE LET cache == RefreshedCache(resp, now)
                    t == Transmit(call, cache.token, uuidCount, keyLog) IN
                /\ tokenCache' = cache
                /\ calls' = [calls EXCEPT ![c] = t.call]
                /\ uuidCount' = t.uuidCount
                /\ keyLog' = t.keyLog
        /\ UNCHANGED <<now, keyValid, ticks>>

\* The business API's answer arrives
ApiResponse(c) ==
    \E resp \in ApiResponses :
        /\ calls[c].pc = "api"
        /\ calls' = [calls EXCEPT ![c] = Settle(calls[c], resp)]
        /\ UNCHANGED <<now, keyValid, tokenCache, ticks, uuidCount, keyLog>>

\* The host receives the handler's result
Deliver(c) ==
    /\ calls[c].pc = "done"
    /\ calls' = [calls EXCEPT ![c] = IdleCall]
    /\ UNCHANGED <<now, keyValid, tokenCache, ticks, uuidCount, keyLog>>

\* Time passes
Tick ==
    \E d \in TickSteps :
        /\ ticks < MaxTicks
        /\ ticks' = ticks + 1
        /\ now' = now + d
        /\ UNCHANGED <<keyValid, tokenCache, calls, uuidCount, keyLog>>

\* No invocation is in progress
NoneInProgress == \A c \in CallIds : calls[c].pc = "idle"

\* The host dispatches one tool call at a time (spec section 5)
Next ==
    \/ Tick
    \/ \E c \in CallIds :
        \/ NoneInProgress /\ getMerchantAccountTool(c)
        \/ NoneInProgress /\ getPayoutTool(c)
        \/ NoneInProgress /\ createPayoutTool(c)
        \/ NoneInProgress /\ createPaymentLinkTool(c)
        \/ NoneInProgress /\ getPaymentLinkTool(c)
        \/ NoneInProgress /\ getPaymentTool(c)
        \/ NoneInProgress /\ listTransactionsTool(c)
        \/ NoneInProgress /\ earlierListTransactionsTool(c)
        \/ NoneInProgress /\ getAccessTokenTool(c)
        \/ NoneInProgress /\ earlierCreatePaymentLinkTool(c)
        \/ importResolved(c)
        \/ TokenResponse(c)
        \/ ExchangeResponse(c)
        \/ ApiResponse(c)
        \/ Deliver(c)

Spec == Init /\ [][Next]_vars

\* The host dispatches one tool call at a time while the clock stands still
NextResponsive ==
    \E c \in CallIds :
        \/ NoneInProgress /\ getMerchantAccountTool(c)
        \/ NoneInProgress /\ getPayoutTool(c)
        \/ NoneInProgress /\ createPayoutTool(c)
        \/ NoneInProgress /\ createPaymentLinkTool(c)
        \/ NoneInProgress /\ getPaymentLinkTool(c)
        \/ NoneInProgress /\ getPaymentTool(c)
        \/ NoneInProgress /\ listTransactionsTool(c)
        \/ NoneInProgress /\ earlierListTransactionsTool(c)
        \/ NoneInProgress /\ getAccessTokenTool(c)
        \/ NoneInProgress /\ earlierCreatePaymentLinkTool(c)
        \/ importResolved(c)
        \/ TokenResponse(c)
        \/ ExchangeResponse(c)
        \/ ApiResponse(c)
        \/ Deliver(c)

\* Every network call answers or fails (the promise of fetch settles), and a resolved
\* import is resumed: each pending continuation of a call is eventually run by the
\* event loop. Nothing obliges the host to start a call or to collect a result
Responsive ==
    \A c \in CallIds :
        /\ WF_vars(TokenResponse(c))
        /\ WF_vars(ExchangeResponse(c))
        /\ WF_vars(ApiResponse(c))
        /\ WF_vars(importResolved(c))

SpecResponsive == Init /\ [][NextResponsive]_vars /\ Responsive

\* The host dispatches getPayment calls without waiting for the one in progress
NextOverlap ==
    \/ Tick
    \/ \E c \in CallIds :
        \/ getPaymentTool(c)
        \/ TokenResponse(c)
        \/ ApiResponse(c)
        \/ Deliver(c)

SpecOverlap == Init /\ [][NextOverlap]_vars

----------------------------------------------------------------------------
(* Properties of the Token Manager *)

\* Call c enters its handler in this step
Starts(c) == calls[c].pc = "idle" /\ calls'[c].pc # "idle"

\* Call c processes the token endpoint's answer in this step
ProcessesExchange(c) == calls[c].pc = "token" /\ calls'[c].pc # "token"

\* C1: a getAccessToken() call made while the cache holds a non-null token with
\* expiresAt > now + tokenExpiryBufferMs returns the cached token, leaves the cache
\* unchanged, and the invocation never transmits a token request.
C1_CacheHit ==
    /\ [][\A c \in CallIds :
            ( /\ Starts(c)
              /\ UsesTokenManager(calls'[c].tool)
              /\ tokenCache.token # Null
              /\ tokenCache.expiresAt > now + tokenExpiryBufferMs )
            => ( /\ calls'[c].cacheHit
                 /\ calls'[c].access_token = tokenCache.token
                 /\ calls'[c].authReqs = <<>>
                 /\ tokenCache' = tokenCache )]_vars
    /\ [](\A c \in CallIds :
            calls[c].cacheHit => calls[c].authReqs = <<>> /\ calls[c].tokenResp = <<>>)

\* A call that was served from a cache filled by an earlier exchange
C1_Witness ==
    \E c \in CallIds :
        /\ calls[c].cacheHit
        /\ calls[c].pc = "api"
        /\ calls[c].access_token \in AccessTokens
        /\ calls[c].access_token = tokenCache.token

\* C2 as stated: when the cached token's remaining lifetime is below the buffer, a token
\* request is transmitted and, when the exchange succeeds, the cache holds the new token
\* with an expiry strictly later than the one it held when getAccessToken was called.
C2_RefreshLaterExpiry ==
    [][\A c \in CallIds :
        /\ ( /\ Starts(c)
             /\ UsesTokenManager(calls'[c].tool)
             /\ tokenCache.expiresAt - now < tokenExpiryBufferMs
             /\ keyValid )
           => calls'[c].authReqs = <<TokenRequest>>
        /\ ( /\ ProcessesExchange(c)
             /\ calls[c].expiresAtCall - now < tokenExpiryBufferMs
             /\ calls'[c].tokenResp[1].net = "ok"
             /\ calls'[c].tokenResp[1].status = 200
             /\ calls'[c].tokenResp[1].json )
           => ( /\ tokenCache'.token = calls'[c].tokenResp[1].access_token
                /\ tokenCache'.expiresAt > calls[c].expiresAtCall )]_vars

\* C2 amended: the same, the expiry being strictly later whenever the new token's
\* lifetime (expires_in, or the fallback, times 1000) is at least the buffer.
C2_RefreshLaterExpiryIfLifetimeCoversBuffer ==
    [][\A c \in CallIds :
        /\ ( /\ Starts(c)
             /\ UsesTokenManager(calls'[c].tool)
             /\ tokenCache.expiresAt - now < tokenExpiryBufferMs
             /\ keyValid )
           => calls'[c].authReqs = <<TokenRequest>>
        /\ ( /\ ProcessesExchange(c)
             /\ calls[c].expiresAtCall - now < tokenExpiryBufferMs
             /\ calls'[c].tokenResp[1].net = "ok"
             /\ calls'[c].tokenResp[1].status = 200
             /\ calls'[c].tokenResp[1].json )
           => ( /\ tokenCache'.token = calls'[c].tokenResp[1].access_token
                /\ ( (IF calls'[c].tokenResp[1].has_expires_in /\ calls'[c].tokenResp[1].expires_in # 0
                      THEN calls'[c].tokenResp[1].expires_in
                      ELSE tokenExpiryFallbackSeconds) * 1000 >= tokenExpiryBufferMs
                     => tokenCache'.expiresAt > calls[c].expiresAtCall ) )]_vars

\* A refresh of a cache that an earlier exchange had filled, after the clock advanced
C2_Witness ==
    \E c \in CallIds :
        /\ calls[c].pc = "api"
        /\ ~calls[c].cacheHit
        /\ calls[c].expiresAtCall > ClockOrigin
        /\ calls[c].tokenResp # <<>>
        /\ calls[c].tokenResp[1].expires_in = 3600
        /\ tokenCache.token = calls[c].tokenResp[1].access_token
        /\ tokenCache.expiresAt = now + 3600000
        /\ now > ClockOrigin

\* C3: when the token endpoint answers non-2xx or the network call fails, the call
\* ends with that error (the HTTP error carries the status), and neither the step that
\* called getAccessToken nor the step that processed the failure changed the cache.
C3_FailedExchangeKeepsCache ==
    [][\A c \in CallIds :
        /\ (Starts(c) /\ calls'[c].pc = "token") => tokenCache' = tokenCache
        /\ ( /\ ProcessesExchange(c)
             /\ \/ calls'[c].tokenResp[1].net = "fail"
                \/ ~(calls'[c].tokenResp[1].status >= 200 /\ calls'[c].tokenResp[1].status <= 299) )
           => ( /\ tokenCache' = tokenCache
                /\ calls'[c].pc = "done"
                /\ calls'[c].apiReqs = <<>>
                /\ calls'[c].result[1].payload =
                      IF calls'[c].tokenResp[1].net = "fail"
                      THEN <<"TypeError", "fetch failed", 0>>
                      ELSE <<"Error", "HTTP error! Status: ", calls'[c].tokenResp[1].status>> )]_vars

\* A 401 from the token endpoint while the cache still holds an earlier token
C3_Witness ==
    \E c \in CallIds :
        /\ calls[c].pc = "done"
        /\ calls[c].tokenResp # <<>>
        /\ calls[c].tokenResp[1].status = 401
        /\ calls[c].result[1].payload = <<"Error", "HTTP error! Status: ", 401>>
        /\ tokenCache.token \in AccessTokens

----------------------------------------------------------------------------
(* Properties of the cache contents *)

\* C4: in every reachable state cache.token is null or a non-empty string (and a null
\* token is never treated as valid).
C4_CacheTokenNullOrNonEmpty ==
    /\ tokenCache.token = Null \/ tokenCache.token \in AccessTokens
    /\ tokenCache.token = Null => ~isTokenValid

----------------------------------------------------------------------------
(* Properties of the transmitted requests *)

\* C5: every signed request (token exchange, createPayout, createPaymentLink) is
\* transmitted with exactly the headers handed to sign plus the one Tl-Signature header,
\* whose value is the signature of that input, and with exactly the body handed to sign.
SignedAsSent(req) ==
    /\ req.signed # <<>>
    /\ "Tl-Signature" \notin DOMAIN req.signed[1].headers
    /\ DOMAIN req.headers = DOMAIN req.signed[1].headers \cup {"Tl-Signature"}
    /\ \A h \in DOMAIN req.signed[1].headers : req.headers[h] = req.signed[1].headers[h]
    /\ req.headers["Tl-Signature"] = <<"Tl-Signature over", req.signed[1]>>
    /\ req.body = req.signed[1].body
    /\ req.method = req.signed[1].method

C5_SignedEqualsSent ==
    \A c \in CallIds :
        /\ \A i \in 1..Len(calls[c].authReqs) : SignedAsSent(calls[c].authReqs[i])
        /\ \A i \in 1..Len(calls[c].apiReqs) :
              \/ SignedAsSent(calls[c].apiReqs[i])
              \/ /\ calls[c].apiReqs[i].signed = <<>>
                 /\ calls[c].tool \notin {"truelayer-create-payout", "truelayer-create-payment-link"}

\* A createPayout request in flight
C5_Witness ==
    \E c \in CallIds :
        /\ calls[c].pc = "api"
        /\ calls[c].tool = "truelayer-create-payout"
        /\ calls[c].apiReqs[1].signed # <<>>
        /\ "Idempotency-Key" \in DOMAIN calls[c].apiReqs[1].signed[1].headers

C9_IdempotencyKeysNeverReused ==
    /\ \A i, j \in 1..Len(keyLog) : i # j => keyLog[i] # keyLog[j]
    /\ \A c \in CallIds : \A i \in 1..Len(calls[c].apiReqs) :
          calls[c].tool \in {"truelayer-create-payout", "truelayer-create-payment-link"}
          => /\ "Idempotency-Key" \in DOMAIN calls[c].apiReqs[i].headers
             /\ \E k \in 1..Len(keyLog) : <<keyLog[k]>> = calls[c].apiReqs[i].headers["Idempotency-Key"]

\* A second createPayout with the same business parameters is in flight
C9_Witness ==
    \E c \in CallIds :
        /\ calls[c].pc = "api"
        /\ calls[c].tool = "truelayer-create-payout"
        /\ Len(keyLog) >= 2
        /\ <<keyLog[Len(keyLog)]>> = calls[c].apiReqs[1].headers["Idempotency-Key"]

----------------------------------------------------------------------------
(* Properties of the tool results *)

UpstreamFailed(resp) ==
    \/ resp.net = "fail"
    \/ ~(resp.status >= 200 /\ resp.status <= 299)
    \/ ~resp.json

\* C7: for every API operation, a non-2xx answer, a transport failure or an unparseable
\* body of the business API gives the failure string "Failed to ...".
C7_UpstreamFailureGivesFailureString ==
    \A c \in CallIds :
        ( /\ calls[c].pc = "done"
          /\ calls[c].tool \in CurrentTools
          /\ calls[c].access_token \in AccessTokens
          /\ calls[c].apiResp # <<>>
          /\ UpstreamFailed(calls[c].apiResp[1]) )
        => ( /\ calls[c].result[1].kind = "text"
             /\ calls[c].result[1].prefix \in
                  {"Failed to retrieve payout: ", "Failed to create payout: ",
                   "Failed to create payment link: ", "Failed to retrieve payment link: ",
                   "Failed to retrieve payment: ", "Failed to list transactions: "} )

\* C8: every handler of every registered tool ends with a text result, whatever failed.
C8_NoErrorEscapesAHandler ==
    \A c \in CallIds : calls[c].pc = "done" => calls[c].result[1].kind = "text"

----------------------------------------------------------------------------
(* End to end *)

----------------------------------------------------------------------------
(* Retries *)

\* C11: one invocation transmits at most one token request and at most one business API
\* request, whatever the answers are: the token request leaves only when the handler
\* starts, the API request only at the start (cache hit) or when the exchange is
\* processed, and once the invocation has ended nothing more is sent until the host
\* invokes a tool again.
C11_NoAutomaticRetries ==
    /\ [](\A c \in CallIds : Len(calls[c].authReqs) <= 1 /\ Len(calls[c].apiReqs) <= 1)
    /\ [][\A c \in CallIds :
            /\ calls[c].pc \in {"token", "api"} => calls'[c].authReqs = calls[c].authReqs
            /\ calls[c].pc = "api" => calls'[c].apiReqs = calls[c].apiReqs
            /\ calls[c].pc = "done" => calls'[c] \in {calls[c], IdleCall}]_vars

\* An invocation that ended on a failed API call after one token request and one API
\* request, without sending either again
C11_Witness ==
    \E c \in CallIds :
        /\ calls[c].pc = "done"
        /\ Len(calls[c].authReqs) = 1
        /\ Len(calls[c].apiReqs) = 1
        /\ calls[c].apiResp # <<>>
        /\ calls[c].apiResp[1].net = "fail"
        /\ calls[c].result[1].prefix = "Failed to create payout: "

----------------------------------------------------------------------------
(* Overlapping refreshes *)

\* The token endpoint answered call c with a body that generateAccessToken returned
ExchangeSucceeded(c) ==
    /\ calls'[c].tokenResp[1].net = "ok"
    /\ calls'[c].tokenResp[1].status >= 200 /\ calls'[c].tokenResp[1].status <= 299
    /\ calls'[c].tokenResp[1].json

\* expires_in of the answer in milliseconds, the fallback when it is absent or zero
LifetimeMs(resp) ==
    IF resp.has_expires_in /\ resp.expires_in # 0 THEN resp.expires_in * 1000 ELSE 1800000

\* C12: a getAccessToken() call that finds the cache invalid transmits its own token
\* request even while another call's exchange is in flight; each successful exchange
\* overwrites the cache with its own token and expiry whatever the cache held, so after
\* both the cache holds the pair of the one processed last; the token a call returned is
\* the access_token of its own exchange's answer.
C12_UnsynchronisedRefreshLastWriteWins ==
    /\ [][\A c \in CallIds :
            /\ ( /\ Starts(c)
                 /\ ~(tokenCache.token # Null /\ tokenCache.expiresAt > now + tokenExpiryBufferMs)
                 /\ keyValid )
               => calls'[c].authReqs = <<TokenRequest>> /\ calls'[c].apiReqs = <<>>
            /\ (ProcessesExchange(c) /\ ExchangeSucceeded(c))
               => /\ tokenCache'.token = calls'[c].tokenResp[1].access_token
                  /\ tokenCache'.expiresAt = now + LifetimeMs(calls'[c].tokenResp[1])
                  /\ calls'[c].access_token = calls'[c].tokenResp[1].access_token]_vars
    /\ [](\A c \in CallIds :
            (calls[c].pc = "api" /\ ~calls[c].cacheHit)
            => calls[c].access_token = calls[c].tokenResp[1].access_token)
    /\ []((\A c \in CallIds : calls[c].pc = "api" /\ ~calls[c].cacheHit)
          => \E c \in CallIds :
                /\ tokenCache.token = calls[c].tokenResp[1].access_token
                /\ tokenCache.expiresAt <= now + LifetimeMs(calls[c].tokenResp[1]))

\* Two overlapping refreshes: the second call's answer (a token of 3600 s) was processed
\* first, the first call's (a token of 30 s) last, and the cache holds the latter
C12_Witness ==
    /\ ticks = 0
    /\ \A c \in CallIds : calls[c].pc = "api" /\ ~calls[c].cacheHit
    /\ calls[1].authReqs = <<TokenRequest>> /\ calls[2].authReqs = <<TokenRequest>>
    /\ calls[1].tokenResp[1].access_token = "tokA" /\ calls[1].tokenResp[1].expires_in = 30
    /\ calls[2].tokenResp[1].access_token = "tokB" /\ calls[2].tokenResp[1].expires_in = 3600
    /\ calls[1].access_token = "tokA" /\ calls[2].access_token = "tokB"
    /\ tokenCache = [token |-> "tokA", expiresAt |-> ClockOrigin + 30000]

----------------------------------------------------------------------------
(* Expiry computation *)

\* C13: after a successful exchange processed at time now, cache.expiresAt is
\* now + expires_in * 1000 when the answer carries a non-zero expires_in, and
\* now + 1800 * 1000 when expires_in is absent or zero.
C13_ExpiryFromExpiresInOrFallback ==
    [][\A c \in CallIds :
        (ProcessesExchange(c) /\ ExchangeSucceeded(c))
        => LET resp == calls'[c].tokenResp[1] IN
           /\ (resp.has_expires_in /\ resp.expires_in # 0)
              => tokenCache'.expiresAt = now + resp.expires_in * 1000
           /\ (~resp.has_expires_in \/ resp.expires_in = 0)
              => tokenCache'.expiresAt = now + 1800 * 1000]_vars

\* An answer with expires_in = 0, processed after the clock advanced, left the fallback
\* lifetime in the cache
C13_Witness ==
    \E c \in CallIds :
        /\ calls[c].pc = "api"
        /\ calls[c].tokenResp # <<>>
        /\ calls[c].tokenResp[1].has_expires_in
        /\ calls[c].tokenResp[1].expires_in = 0
        /\ now > ClockOrigin
        /\ tokenCache.expiresAt = now + 1800000

----------------------------------------------------------------------------
(* Malformed exchange answers *)

\* C14: when the token endpoint answers 2xx with a body that is not JSON or that has no
\* access_token field, the exchange fails with an error: the invocation ends with that
\* failure, no API request leaves, and the cache is unchanged.
C14_MalformedExchangeFails ==
    [][\A c \in CallIds :
        ( /\ ProcessesExchange(c)
          /\ calls'[c].tokenResp[1].net = "ok"
          /\ calls'[c].tokenResp[1].status >= 200 /\ calls'[c].tokenResp[1].status <= 299
          /\ \/ ~calls'[c].tokenResp[1].json
             \/ calls'[c].tokenResp[1].access_token = Undefined )
        => ( /\ calls'[c].pc = "done"
             /\ calls'[c].apiReqs = <<>>
             /\ calls'[c].access_token = None
             /\ tokenCache' = tokenCache )]_vars

----------------------------------------------------------------------------
(* Fail closed *)

\* The texts that open a failure string of the handlers of index.ts
FailureTexts ==
    {"Failed to retrieve payout: ", "Failed to create payout: ",
     "Failed to create payment link: ", "Failed to retrieve payment link: ",
     "Failed to retrieve payment: ", "Failed to list transactions: "}

\* C15: an operation transmits its business API request only after getAccessToken()
\* returned a token (from the cache, or from an exchange that succeeded) and, for
\* createPayout and createPaymentLink, after sign returned the signature the request
\* carries; when the token exchange or the signing step fails, the invocation transmits
\* no business API request and the tool returns a failure string.
C15_FailClosed ==
    \A c \in CallIds :
        LET call == calls[c] IN
        /\ (call.tool \in CurrentTools /\ call.apiReqs # <<>>)
           => /\ call.access_token # None
              /\ call.apiReqs[1].headers["Authorization"] = <<"Bearer", call.access_token>>
              /\ \/ call.cacheHit /\ call.authReqs = <<>>
                 \/ /\ ~call.cacheHit /\ call.authReqs # <<>>
                    /\ call.tokenResp # <<>> =>
                          /\ call.tokenResp[1].net = "ok"
                          /\ call.tokenResp[1].status >= 200 /\ call.tokenResp[1].status <= 299
                          /\ call.tokenResp[1].json
                          /\ call.access_token = call.tokenResp[1].access_token
              /\ call.tool \in {"truelayer-create-payout", "truelayer-create-payment-link"}
                 => /\ keyValid
                    /\ call.apiReqs[1].signed # <<>>
                    /\ call.apiReqs[1].headers["Tl-Signature"] = <<"Tl-Signature over", call.apiReqs[1].signed[1]>>
        /\ ( /\ call.tool \in CurrentTools
             /\ call.tokenResp # <<>>
             /\ \/ call.tokenResp[1].net = "fail"
                \/ ~(call.tokenResp[1].status >= 200 /\ call.tokenResp[1].status <= 299)
                \/ ~call.tokenResp[1].json )
           => /\ call.pc = "done"
              /\ call.apiReqs = <<>>
              /\ call.result[1].kind = "text"
              /\ call.result[1].prefix \in FailureTexts
        /\ ( /\ call.tool \in CurrentTools \ {"truelayer-get-merchant-account"}
             /\ ~keyValid )
           => /\ call.pc \in {"import", "done"}
              /\ call.apiReqs = <<>>
              /\ call.pc = "done" => /\ call.result[1].kind = "text"
                                     /\ call.result[1].prefix \in FailureTexts

\* A createPayout invocation whose exchange was answered 401: nothing went to the API
C15_Witness ==
    \E c \in CallIds :
        /\ calls[c].tool = "truelayer-create-payout"
        /\ calls[c].pc = "done"
        /\ calls[c].tokenResp # <<>>
        /\ calls[c].tokenResp[1].status = 401
        /\ calls[c].apiReqs = <<>>
        /\ calls[c].result[1].prefix = "Failed to create payout: "
        /\ keyLog = <<>>

----------------------------------------------------------------------------
(* Cache ownership *)

\* C16: the cache starts as (token = null, expiresAt = 0); a step changes it only when it
\* is getAccessToken() processing the answer of an exchange that succeeded;
\* generateAccessToken() called on its own, every business API call whatever the answer,
\* and the get-merchant-account tool leave cache.token and cache.expiresAt unchanged.
C16_CacheWrittenOnlyByRefresh ==
    /\ (tokenCache.token = Null /\ tokenCache.expiresAt = 0)
    /\ [][/\ tokenCache' # tokenCache
             => \E c \in CallIds :
                   /\ ProcessesExchange(c)
                   /\ ExchangeSucceeded(c)
                   /\ calls[c].tool \in CurrentTools \ {"truelayer-get-merchant-account"}
          /\ \A c \in CallIds :
                /\ (calls[c].tool = "get-truelayer-access-token" \/ calls'[c].tool = "get-truelayer-access-token")
                   => tokenCache' = tokenCache
                /\ (calls[c].pc = "api" /\ calls'[c].pc = "done") => tokenCache' = tokenCache
                /\ calls'[c].tool = "truelayer-get-merchant-account" => tokenCache' = tokenCache]_vars

\* generateAccessToken() called on its own returned tokB while the cache, filled by an
\* earlier refresh, still holds tokA
C16_Witness ==
    \E c \in CallIds :
        /\ calls[c].tool = "get-truelayer-access-token"
        /\ calls[c].pc = "done"
        /\ calls[c].result[1].payload = <<"access_token", "tokB", 0>>
        /\ tokenCache.token = "tokA"
        /\ tokenCache.expiresAt > now

----------------------------------------------------------------------------
(* Arguments of the requests *)

\* The pairs of the query of the request a list-transactions call transmitted
QueryOf(call) == call.apiReqs[1].url[Len(call.apiReqs[1].url)]

\* C17: when truelayer-list-transactions is called with neither from nor to, the `to`
\* parameter of the request is the ISO-8601 text of the time of the call and `from` is
\* exactly that `to` minus 30 days; a supplied from or to is passed through verbatim; the
\* cursor parameter is in the query exactly when a cursor was supplied (an empty string
\* counting as not supplied).
C17_ListTransactionsDefaults ==
    \A c \in CallIds :
        ( /\ calls[c].tool = "truelayer-list-transactions"
          /\ calls[c].apiReqs # <<>>
          /\ calls[c].access_token \in AccessTokens )
        => LET supplied == calls[c].input[1].args
               at == calls[c].input[1].at
               query == QueryOf(calls[c]) IN
           /\ (~Truthy(supplied.from) /\ ~Truthy(supplied.to))
              => /\ query[3] = <<"to", << <<"ISO-8601", 0, at>> >> >>
                 /\ query[2] = <<"from", << <<"ISO-8601", -30, at>> >> >>
           /\ Truthy(supplied.from) => query[2] = <<"from", supplied.from>>
           /\ Truthy(supplied.to) => query[3] = <<"to", supplied.to>>
           /\ Truthy(supplied.cursor)
              <=> (Len(query) = 4 /\ query[4] = <<"cursor", supplied.cursor>>)

\* The instant of an ISO-8601 text is later than epoch millisecond t
LaterThan(iso, t) == iso[2] > 0 \/ (iso[2] = 0 /\ iso[3] > t)

\* C18: for every create-payment-link call the body's amount_in_minor, currency and
\* beneficiary merchant_account_id are the supplied arguments, and expires_at is the time
\* the handler read the clock plus the configured hours (the expires_in_hours argument,
\* 24 when not supplied) and is strictly later than that time.
C18_PaymentLinkBody ==
    \A c \in CallIds :
        ( /\ calls[c].tool \in {"truelayer-create-payment-link", "create-truelayer-payment-link"}
          /\ calls[c].apiReqs # <<>> )
        => LET supplied == calls[c].input[1].args
               at == calls[c].input[1].at
               body == calls[c].apiReqs[1].body[2]
               hours == IF supplied.expires_in_hours # <<>> THEN supplied.expires_in_hours[1] ELSE 24 IN
           /\ calls[c].apiReqs[1].body[1] = "json"
           /\ body.payment_configuration.amount_in_minor = supplied.amount_in_minor
           /\ body.payment_configuration.currency = supplied.currency
           /\ body.payment_configuration.payment_method.beneficiary.merchant_account_id
                 = supplied.merchant_account_id
           /\ body.expires_at = <<"ISO-8601", 0, at + hours * 3600000>>
           /\ LaterThan(body.expires_at, at)

----------------------------------------------------------------------------
(* Consistency of the cached pair *)

\* C20: getAccessToken() writes cache.token and cache.expiresAt in one step: every step
\* that changes the cache is one call processing its exchange answer and leaves both the
\* token and the expiry computed from that one answer, so in every state that an
\* overlapping call can observe the pair comes from a single answer; the call carries on
\* with the token of its own answer, also after another call has overwritten the cache.
C20_CachePairFromOneExchange ==
    /\ [][tokenCache' # tokenCache
          => \E c \in CallIds :
                /\ calls[c].pc = "token"
                /\ calls'[c].tokenResp # <<>>
                /\ LET resp == calls'[c].tokenResp[1] IN
                   /\ tokenCache' = [token |-> resp.access_token,
                                     expiresAt |-> now + LifetimeMs(resp)]
                   /\ calls'[c].pc = "api"
                   /\ calls'[c].apiReqs[1].headers["Authorization"] = <<"Bearer", resp.access_token>>
                /\ \A d \in CallIds \ {c} : calls'[d] = calls[d]]_vars
    /\ [](\A c \in CallIds :
            (calls[c].pc = "api" /\ ~calls[c].cacheHit)
            => calls[c].apiReqs[1].headers["Authorization"]
                  = <<"Bearer", calls[c].tokenResp[1].access_token>>)

\* Two overlapping refreshes: the first call sent its request with tokB, its own
\* exchange's token, and the cache then took the second call's whole pair
C20_Witness ==
    /\ ticks = 0
    /\ calls[1].pc = "api" /\ ~calls[1].cacheHit
    /\ calls[2].pc = "api" /\ ~calls[2].cacheHit
    /\ calls[1].tokenResp[1].access_token = "tokB" /\ ~calls[1].tokenResp[1].has_expires_in
    /\ calls[2].tokenResp[1].access_token = "tokA" /\ calls[2].tokenResp[1].expires_in = 3600
    /\ calls[1].apiReqs[1].headers["Authorization"] = <<"Bearer", "tokB">>
    /\ tokenCache = [token |-> "tokA", expiresAt |-> ClockOrigin + 3600000]

----------------------------------------------------------------------------
(* Termination *)

\* How far an invocation has come: the handler's code runs forward only
PcRank(pc) ==
    CASE pc = "idle" -> 0
      [] pc = "import" -> 1
      [] pc \in {"token", "exchange"} -> 2
      [] pc = "api" -> 3
      [] pc = "done" -> 4

\* Every invocation that was entered reaches its end
InvocationsEnd ==
    \A c \in CallIds : (calls[c].pc \notin {"idle", "done"}) ~> (calls[c].pc = "done")

\* An invocation runs no loop: each step it takes brings it nearer its end, and once
\* ended it keeps its result until the host collects it
NoLoopOneResult ==
    [][\A c \in CallIds :
        /\ (calls[c].pc \notin {"idle", "done"} /\ calls'[c] # calls[c])
              => PcRank(calls'[c].pc) > PcRank(calls[c].pc)
        /\ calls[c].pc = "done" => calls'[c] \in {calls[c], IdleCall}]_vars

\* An invocation that has not returned is waiting for its network call, whose answer
\* resumes it
OnlyTheNetworkHoldsACall ==
    \A c \in CallIds :
        /\ calls[c].pc = "token" => ENABLED TokenResponse(c)
        /\ calls[c].pc = "exchange" => ENABLED ExchangeResponse(c)
        /\ calls[c].pc = "api" => ENABLED ApiResponse(c)
        /\ calls[c].pc = "import" => ENABLED importResolved(c)

\* C21: provided every network call answers or fails, every tool invocation eventually
\* returns, and returns exactly one result, a success payload or a failure string; it is
\* suspended only at the token exchange and at the business API call, runs no loop, and
\* only an unanswered network call keeps it from returning.
C21_EveryInvocationReturnsOnce ==
    /\ [](\A c \in CallIds : calls[c].pc \in {"idle", "token", "exchange", "api", "done"})
    /\ [](\A c \in CallIds :
            calls[c].pc = "done" => Len(calls[c].result) = 1 /\ calls[c].result[1].kind = "text")
    /\ NoLoopOneResult
    /\ []OnlyTheNetworkHoldsACall
    /\ InvocationsEnd

====
